---- MODULE Spec2Model ----
(***************************************************************************)
(* Model of Tokenizer.tokenize_qa (utils_nlp/models/bert/common.py): the   *)
(* question-answering feature extraction pipeline.                         *)
(*                                                                         *)
(* Strings are sequences of Unicode code points (97 = "a", 32 = " ", ...). *)
(* A Python list is a sequence; Python indices are 0-based and are mapped  *)
(* to the 1-based sequences of TLA+ by PyIndex / PySlice, which keep       *)
(* Python's treatment of negative and out-of-range indices.  An optional   *)
(* integer (None or an int) is the empty or the one-element sequence.      *)
(***************************************************************************)
EXTENDS Integers, Sequences, FiniteSets, TLC

\* ------------------------------------------------------------------------
\* Bounds of the model
\* ------------------------------------------------------------------------
MaxDocLen == 3
MaxStride == 2
MaxBatch == 2
MaxMaxLen == 6

\* Max supported sequence length (line 28)
BERT_MAX_LEN == 512

\* the max_len tokenize_ner works with (lines 231-237): a warning, then the cap
tokenize_ner_max_len(max_len_arg) ==
    IF max_len_arg > BERT_MAX_LEN THEN BERT_MAX_LEN ELSE max_len_arg

\* the max_len preprocess_classification_tokens works with (lines 120-126):
\* a printed message, then the cap
preprocess_classification_tokens_max_len(max_len_arg) ==
    IF max_len_arg > BERT_MAX_LEN THEN BERT_MAX_LEN ELSE max_len_arg

\* ------------------------------------------------------------------------
\* Python built-ins used by the code
\* ------------------------------------------------------------------------
None == <<>>
Some(v) == <<v>>

Min(a, b) == IF a < b THEN a ELSE b
Max(a, b) == IF a > b THEN a ELSE b

\* seq[i] is defined (no IndexError) for -len <= i < len
PyIndexOk(seq, i) == (-Len(seq) <= i) /\ (i < Len(seq))
PyIndex(seq, i) == IF i >= 0 THEN seq[i + 1] ELSE seq[Len(seq) + i + 1]

\* one bound of a slice, clamped as Python clamps it
PyClamp(n, i) == IF i < 0 THEN Max(n + i, 0) ELSE Min(i, n)
\* seq[lo:hi]
PySlice(seq, lo, hi) == SubSeq(seq, PyClamp(Len(seq), lo) + 1, PyClamp(Len(seq), hi))

\* all sequences over S of length at most n
SeqsUpTo(S, n) == UNION {[1..k -> S] : k \in 0..n}

RECURSIVE Concat(_)
\* the concatenation of a sequence of sequences
Concat(ss) == IF ss = <<>> THEN <<>> ELSE Head(ss) \o Concat(Tail(ss))

RECURSIVE Join(_)
\* " ".join(words)
Join(words) ==
    IF words = <<>> THEN <<>>
    ELSE IF Len(words) = 1 THEN words[1]
    ELSE words[1] \o <<32>> \o Join(Tail(words))

\* hay.find(needle) != -1
Contains(hay, needle) ==
    \E i \in 0..(Len(hay) - Len(needle)) : SubSeq(hay, i + 1, i + Len(needle)) = needle

\* the characters str.isspace() accepts, which str.strip() and str.split() cut at
PySpace == {9, 10, 11, 12, 13, 28, 29, 30, 31, 32, 133, 160, 5760, 8232, 8233, 8239, 8287, 12288}
               \cup (8192..8202)

\* the characters of line 357 without the test of 0x202F
QaSpaceBroken == {32, 9, 13, 10}
\* _is_whitespace(c) of tokenize_qa
QaSpace == {32, 9, 13, 10, 8239}
_is_whitespace(c) == c \in QaSpace

RECURSIVE WsLoop(_, _, _, _, _, _)
\* the character loop of tokenize_qa: the words of d_text and, for every
\* character, the index of the last word started (-1 before the first word)
WsLoop(d_text, i, d_tokens, char_to_word_offset, prev_is_whitespace, ws) ==
    IF i > Len(d_text) THEN [d_tokens |-> d_tokens, char_to_word_offset |-> char_to_word_offset]
    ELSE LET c == d_text[i]
             toks == IF c \in ws THEN d_tokens
                     ELSE IF prev_is_whitespace THEN Append(d_tokens, <<c>>)
                     ELSE [d_tokens EXCEPT ![Len(d_tokens)] = Append(@, c)]
         IN WsLoop(d_text, i + 1, toks, Append(char_to_word_offset, Len(toks) - 1), c \in ws, ws)

WhitespaceTokenizer(d_text) == WsLoop(d_text, 1, <<>>, <<>>, TRUE, QaSpace)

\* whitespace_tokenize(text) of pytorch_transformers: text.strip().split()
whitespace_tokenize(text) == WsLoop(text, 1, <<>>, <<>>, TRUE, PySpace).d_tokens

\* ------------------------------------------------------------------------
\* The external subword tokenizer (self.tokenizer): a black box to this code.
\* Two deterministic behaviours stand for it.  Both cut the text at
\* whitespace, so a word of whitespace-like characters only (such as
\* U+00A0, which _is_whitespace does not count as whitespace) yields no
\* subword token; "word" keeps every piece whole and "char" cuts every piece
\* into one subword token per character.
\* ------------------------------------------------------------------------
TokModes == {"word", "char"}

Chars(piece) == [k \in 1..Len(piece) |-> <<piece[k]>>]

tokenize(text, mode) ==
    LET pieces == whitespace_tokenize(text)
    IN IF mode = "word" THEN pieces
       ELSE Concat([k \in 1..Len(pieces) |-> Chars(pieces[k])])

cls_token == <<91, 67, 76, 83, 93>>
sep_token == <<91, 83, 69, 80, 93>>

RECURSIVE TokenId(_)
\* the vocabulary id of one token: 101 and 102 for the markers, never 0
TokenId(token) ==
    IF token = cls_token THEN 101
    ELSE IF token = sep_token THEN 102
    ELSE IF token = <<>> THEN 1000
    ELSE Head(token) + 7 * TokenId(Tail(token))

convert_tokens_to_ids(tokens) == [k \in 1..Len(tokens) |-> TokenId(tokens[k])]

\* ------------------------------------------------------------------------
\* Helpers nested in tokenize_qa
\* ------------------------------------------------------------------------
_DocSpan(start, length) == [start |-> start, length |-> length]

RECURSIVE ImproveLoop(_, _, _, _, _, _)
\* the two loops of lines 392-396 from the candidate (new_start, new_end) on:
\* new_start in range(input_start, input_end + 1), and for each of them
\* new_end in range(input_end, new_start - 1, -1); line 398 when they end
ImproveLoop(doc_tokens, input_start, input_end, tok_answer_text, new_start, new_end) ==
    IF new_start > input_end THEN <<input_start, input_end>>
    ELSE IF new_end < new_start
    THEN ImproveLoop(doc_tokens, input_start, input_end, tok_answer_text,
                     new_start + 1, input_end)
    ELSE LET text_span == Join(PySlice(doc_tokens, new_start, new_end + 1))
         IN IF text_span = tok_answer_text THEN <<new_start, new_end>>
            ELSE ImproveLoop(doc_tokens, input_start, input_end, tok_answer_text,
                             new_start, new_end - 1)

\* _improve_answer_span with new_end starting one token before input_end
_improve_answer_spanBroken(doc_tokens, input_start, input_end, mode, orig_answer_text) ==
    LET tok_answer_text == Join(tokenize(orig_answer_text, mode))
    IN ImproveLoop(doc_tokens, input_start, input_end - 1, tok_answer_text,
                   input_start, input_end - 1)
\* _improve_answer_span (lines 364-398): the first candidate of the scan whose
\* joined subword slice is the joined tokenization of the answer text, the
\* input span when the scan finds none
_improve_answer_span(doc_tokens, input_start, input_end, mode, orig_answer_text) ==
    LET tok_answer_text == Join(tokenize(orig_answer_text, mode))
    IN ImproveLoop(doc_tokens, input_start, input_end, tok_answer_text,
                   input_start, input_end)

\* the score of _check_is_max_context times 100, which keeps it an integer:
\* min(left, right) + 0.01 * length
SpanScore(doc_span, position) ==
    LET end == doc_span.start + doc_span.length - 1
        num_left_context == position - doc_span.start
        num_right_context == end - position
    IN 100 * Min(num_left_context, num_right_context) + doc_span.length

RECURSIVE BestSpanLoop(_, _, _, _, _)
\* the loop of _check_is_max_context over doc_spans from span_index (0-based)
\* on: best_score and best_span_index are None or a value
BestSpanLoop(doc_spans, span_index, position, best_score, best_span_index) ==
    IF span_index >= Len(doc_spans) THEN best_span_index
    ELSE LET doc_span == doc_spans[span_index + 1]
             end == doc_span.start + doc_span.length - 1
             score == SpanScore(doc_span, position)
         IN IF position < doc_span.start \/ position > end
            THEN BestSpanLoop(doc_spans, span_index + 1, position, best_score, best_span_index)
            ELSE IF best_score = None \/ score > best_score[1]
            THEN BestSpanLoop(doc_spans, span_index + 1, position, Some(score), Some(span_index))
            ELSE BestSpanLoop(doc_spans, span_index + 1, position, best_score, best_span_index)

\* _check_is_max_context without the tie-break of line 430: every span whose
\* score is the greatest reports true, not only the first of them
_check_is_max_contextBroken(doc_spans, cur_span_index, position) ==
    LET holding == {k \in 1..Len(doc_spans) :
                       /\ position >= doc_spans[k].start
                       /\ position <= doc_spans[k].start + doc_spans[k].length - 1}
    IN /\ cur_span_index + 1 \in holding
       /\ \A k \in holding :
              SpanScore(doc_spans[cur_span_index + 1], position)
                  >= SpanScore(doc_spans[k], position)
\* lines 400-434: the first span of greatest score is the max-context span
_check_is_max_context(doc_spans, cur_span_index, position) ==
    Some(cur_span_index) = BestSpanLoop(doc_spans, 0, position, None, None)

\* ------------------------------------------------------------------------
\* State: the arguments of one call of tokenize_qa, and its local variables
\* ------------------------------------------------------------------------
VARIABLES
    doc_text, question_text, answer_start, answer_text, is_training,
    max_query_length, max_len, doc_stride, qa_id, is_impossible,
    tokmode,             \* which behaviour self.tokenizer has
    pc,                  \* "start", "examples", "tokenize", "spans", "features", "done", "error"
    raised,              \* the exception that ended the call, "" when none
    zip_index,           \* tuples of the zip consumed so far
    looked_up,           \* tuples whose answer offsets indexed char_to_word_offset
    qa_examples, features, unique_id, example_index,
    query_tokens, all_doc_tokens, tok_to_orig_index, orig_to_tok_index,
    tok_start_position, tok_end_position, max_tokens_for_doc,
    doc_spans, start_offset, doc_span_index,
    windows              \* per feature, the locals of its iteration (not returned)

args == <<doc_text, question_text, answer_start, answer_text, is_training,
          max_query_length, max_len, doc_stride, tokmode>>
example_locals == <<query_tokens, all_doc_tokens, tok_to_orig_index, orig_to_tok_index,
                    tok_start_position, tok_end_position, max_tokens_for_doc>>
vars == <<args, qa_id, is_impossible, pc, raised, zip_index, looked_up, qa_examples,
          features, unique_id, example_index, example_locals,
          doc_spans, start_offset, doc_span_index, windows>>

\* A Python value that is a str or a list carries its type: iterating a str
\* yields its characters as one-character strs.
PyStr(v) == [kind |-> "str", val |-> v]
PyList(v) == [kind |-> "list", val |-> v]
PyInt(v) == [kind |-> "int", val |-> v]
NoneArg == [kind |-> "none", val |-> <<>>]
PyLen(obj) == Len(obj.val)
PyIter(obj) == IF obj.kind = "str" THEN Chars(obj.val) ELSE obj.val

\* _is_iterable_but_not_string(obj)
_is_iterable_but_not_string(obj) == obj.kind = "list"

\* ------------------------------------------------------------------------
\* Lines 437-441: the defaults of qa_id and is_impossible
\* ------------------------------------------------------------------------
Defaults ==
    /\ pc = "start"
    /\ qa_id' = IF qa_id.kind = "none"
                THEN PyList([k \in 1..PyLen(question_text) |-> k - 1])
                ELSE qa_id
    /\ is_impossible' = IF is_impossible.kind = "none"
                        THEN PyList([k \in 1..PyLen(question_text) |-> FALSE])
                        ELSE is_impossible
    /\ pc' = "examples"
    /\ UNCHANGED <<args, raised, zip_index, looked_up, qa_examples, features, unique_id,
                   example_index, example_locals, doc_spans, start_offset, doc_span_index,
                   windows>>

\* ------------------------------------------------------------------------
\* Lines 443-501: one QAExample per answer of every zipped tuple
\* ------------------------------------------------------------------------
\* the number of tuples zip(...) yields: the shortest argument decides
ZipLen == Min(PyLen(doc_text), Min(PyLen(question_text), Min(PyLen(answer_start),
              Min(PyLen(answer_text), Min(PyLen(qa_id), PyLen(is_impossible))))))

QAExample(q_id, d_tokens, q_text, t, start_position, end_position, impossible) ==
    [qa_id |-> q_id, doc_tokens |-> d_tokens, question_text |-> q_text,
     orig_answer_text |-> t, start_position |-> start_position,
     end_position |-> end_position, is_impossible |-> impossible]

\* line 463 with an off-by-one bound: two answers pass
MultipleAnswersBroken(a_start, training, impossible) == Len(a_start) > 2 /\ training /\ ~impossible
\* line 463: more than one answer for a trainable, possible question
MultipleAnswers(a_start, training, impossible) == Len(a_start) > 1 /\ training /\ ~impossible

RECURSIVE AnswerLoop(_, _, _, _, _, _, _, _, _)
\* lines 469-501, from the k-th (s, t) pair on: the examples appended, or the
\* exception raised, and whether an answer offset indexed char_to_word_offset
\* (lines 475-476).  logger is no name of the module, so the warning of
\* line 487 raises NameError before the continue of line 489 is reached.
AnswerLoop(ss, ts, k, ws, q_text, q_id, impossible, acc, looked) ==
    IF k > Min(Len(ss), Len(ts)) THEN [raised |-> "", examples |-> acc, looked |-> looked]
    ELSE LET s == ss[k]
             t == ts[k]
             answer_length == Len(t)
             ctw == ws.char_to_word_offset
         IN IF is_training /\ ~impossible
            THEN IF ~PyIndexOk(ctw, s) \/ ~PyIndexOk(ctw, s + answer_length - 1)
                 THEN [raised |-> "IndexError", examples |-> acc, looked |-> TRUE]
                 ELSE LET start_position == PyIndex(ctw, s)
                          end_position == PyIndex(ctw, s + answer_length - 1)
                          actual_text == Join(PySlice(ws.d_tokens, start_position, end_position + 1))
                          cleaned_answer_text == Join(whitespace_tokenize(t))
                      IN IF ~Contains(actual_text, cleaned_answer_text)
                         THEN [raised |-> "NameError", examples |-> acc, looked |-> TRUE]
                         ELSE AnswerLoop(ss, ts, k + 1, ws, q_text, q_id, impossible,
                                  Append(acc, QAExample(q_id, ws.d_tokens, q_text, t,
                                      Some(start_position), Some(end_position), impossible)),
                                  TRUE)
            ELSE AnswerLoop(ss, ts, k + 1, ws, q_text, q_id, impossible,
                     Append(acc, QAExample(q_id, ws.d_tokens, q_text, t,
                         IF is_training THEN Some(-1) ELSE None,
                         IF is_training THEN Some(-1) ELSE None, impossible)),
                     looked)

\* the body of the zip loop for one tuple, lines 446-501
ZipBody(d_text, q_text, a_start, a_text, q_id, impossible) ==
    LET ws == WhitespaceTokenizer(d_text)
    IN IF _is_iterable_but_not_string(a_start)
       THEN IF PyLen(a_start) # PyLen(a_text)
            THEN [raised |-> "Exception: lengths differ", examples |-> <<>>, looked |-> FALSE]
            ELSE IF MultipleAnswers(a_start.val, is_training, impossible)
            THEN [raised |-> "Exception: exactly 1 answer", examples |-> <<>>, looked |-> FALSE]
            ELSE AnswerLoop(a_start.val, PyIter(a_text), 1, ws, q_text, q_id, impossible, <<>>, FALSE)
       ELSE AnswerLoop(<<a_start.val>>, <<a_text.val>>, 1, ws, q_text, q_id, impossible, <<>>, FALSE)

\* the k-th tuple of the zip (1-based)
ZipTuple(k) ==
    [d_text |-> PyIter(doc_text)[k], q_text |-> PyIter(question_text)[k],
     a_start |-> answer_start.val[k], a_text |-> answer_text.val[k],
     q_id |-> qa_id.val[k], impossible |-> is_impossible.val[k]]

ZipOutcome(k) ==
    LET z == ZipTuple(k)
    IN ZipBody(z.d_text, z.q_text, z.a_start, z.a_text, z.q_id, z.impossible)

ForZip ==
    /\ pc = "examples"
    /\ IF zip_index < ZipLen
       THEN LET out == ZipOutcome(zip_index + 1)
            IN /\ zip_index' = zip_index + 1
               /\ looked_up' = IF out.looked THEN looked_up \cup {zip_index + 1} ELSE looked_up
               /\ IF out.raised # ""
                  THEN /\ pc' = "error"
                       /\ raised' = out.raised
                       /\ UNCHANGED <<qa_examples, features, unique_id, example_index>>
                  ELSE /\ qa_examples' = qa_examples \o out.examples
                       /\ UNCHANGED <<pc, raised, features, unique_id, example_index>>
       ELSE \* lines 513-515: the feature loop starts
            /\ pc' = "tokenize"
            /\ unique_id' = 1000000000
            /\ features' = <<>>
            /\ example_index' = 0
            /\ UNCHANGED <<zip_index, looked_up, raised, qa_examples>>
    /\ UNCHANGED <<args, qa_id, is_impossible, example_locals, doc_spans, start_offset,
                   doc_span_index, windows>>

\* ------------------------------------------------------------------------
\* Lines 515-547: subword tokenization of one example
\* ------------------------------------------------------------------------
RECURSIVE SubwordLoop(_, _, _, _, _)
\* lines 521-529 from word i (0-based) on
SubwordLoop(doc_tokens, i, tok_to_orig, orig_to_tok, all_tokens) ==
    IF i >= Len(doc_tokens)
    THEN [tok_to_orig_index |-> tok_to_orig, orig_to_tok_index |-> orig_to_tok,
          all_doc_tokens |-> all_tokens]
    ELSE LET sub_tokens == tokenize(doc_tokens[i + 1], tokmode)
         IN SubwordLoop(doc_tokens, i + 1,
                tok_to_orig \o [k \in 1..Len(sub_tokens) |-> i],
                Append(orig_to_tok, Len(all_tokens)),
                all_tokens \o sub_tokens)

\* line 516 without the truncation of lines 518-519
QueryTokensBroken(q_text) == tokenize(q_text, tokmode)
\* lines 516-519
QueryTokens(q_text) ==
    LET toks == tokenize(q_text, tokmode)
    IN IF Len(toks) > max_query_length THEN PySlice(toks, 0, max_query_length) ELSE toks

\* line 547 reserving room for two markers only
MaxTokensForDocBroken(len, query_len) == len - query_len - 2
\* line 547: the -3 accounts for [CLS], [SEP] and [SEP]
MaxTokensForDoc(len, query_len) == len - query_len - 3

\* the largest number of spans the model lets the loop of lines 555-562 emit;
\* a loop that ends emits at most one span per subword token
MaxSpans == MaxDocLen + 2

ForExample ==
    /\ pc = "tokenize"
    /\ IF example_index < Len(qa_examples)
       THEN LET example == qa_examples[example_index + 1]
                sub == SubwordLoop(example.doc_tokens, 0, <<>>, <<>>, <<>>)
                q == QueryTokens(example.question_text)
                possible == is_training /\ ~example.is_impossible
            IN IF possible /\ ~PyIndexOk(sub.orig_to_tok_index, example.start_position[1])
               THEN \* line 537 on a document without words
                    /\ pc' = "error"
                    /\ raised' = "IndexError"
                    /\ UNCHANGED <<example_locals, doc_spans, start_offset>>
               ELSE LET input_start == PyIndex(sub.orig_to_tok_index, example.start_position[1])
                        input_end ==
                            IF example.end_position[1] < Len(example.doc_tokens) - 1
                            THEN PyIndex(sub.orig_to_tok_index, example.end_position[1] + 1) - 1
                            ELSE Len(sub.all_doc_tokens) - 1
                        improved == _improve_answer_span(sub.all_doc_tokens, input_start,
                                        input_end, tokmode, example.orig_answer_text)
                    IN /\ query_tokens' = q
                       /\ all_doc_tokens' = sub.all_doc_tokens
                       /\ tok_to_orig_index' = sub.tok_to_orig_index
                       /\ orig_to_tok_index' = sub.orig_to_tok_index
                       /\ tok_start_position' =
                              IF possible THEN Some(improved[1])
                              ELSE IF is_training THEN Some(-1) ELSE None
                       /\ tok_end_position' =
                              IF possible THEN Some(improved[2])
                              ELSE IF is_training THEN Some(-1) ELSE None
                       /\ max_tokens_for_doc' = MaxTokensForDoc(max_len, Len(q))
                       /\ doc_spans' = <<>>
                       /\ start_offset' = 0
                       /\ pc' = "spans"
                       /\ UNCHANGED raised
       ELSE \* line 674: return features, qa_examples
            /\ pc' = "done"
            /\ UNCHANGED <<raised, example_locals, doc_spans, start_offset>>
    /\ UNCHANGED <<args, qa_id, is_impossible, zip_index, looked_up, qa_examples, features,
                   unique_id, example_index, doc_span_index, windows>>

\* ------------------------------------------------------------------------
\* Lines 553-562: the sliding window, one iteration of the while loop
\* ------------------------------------------------------------------------
\* line 562 left out: the window never advances
NextStartOffsetStuck(offset, length, stride) == offset
\* line 562 without the min: the window advances by doc_stride
NextStartOffsetBroken(offset, length, stride) == offset + stride
\* line 562
NextStartOffset(offset, length, stride) == offset + Min(length, stride)

SpanLoop ==
    /\ pc = "spans"
    /\ Len(doc_spans) < MaxSpans
    /\ IF start_offset < Len(all_doc_tokens)
       THEN LET remaining == Len(all_doc_tokens) - start_offset
                length == IF remaining > max_tokens_for_doc THEN max_tokens_for_doc
                          ELSE remaining
            IN /\ doc_spans' = Append(doc_spans, _DocSpan(start_offset, length))
               /\ IF start_offset + length = Len(all_doc_tokens)
                  THEN /\ pc' = "features"
                       /\ doc_span_index' = 0
                       /\ UNCHANGED start_offset
                  ELSE /\ start_offset' = NextStartOffset(start_offset, length, doc_stride)
                       /\ UNCHANGED <<pc, doc_span_index>>
       ELSE /\ pc' = "features"
            /\ doc_span_index' = 0
            /\ UNCHANGED <<doc_spans, start_offset>>
    /\ UNCHANGED <<args, qa_id, is_impossible, raised, zip_index, looked_up, qa_examples,
                   features, unique_id, example_index, example_locals, windows>>

\* ------------------------------------------------------------------------
\* Lines 564-672: one QAFeatures per doc span
\* ------------------------------------------------------------------------
pad_token == 0
sequence_a_segment_id == 0
sequence_b_segment_id == 1
cls_token_segment_id == 0
pad_token_segment_id == 0
cls_index == 0

Repeat(v, n) == [k \in 1..n |-> v]

\* lines 624-628: the while loop that pads seq up to length n with v
Pad(seq, n, v) == seq \o Repeat(v, n - Len(seq))

\* lines 565-608: tokens and segment_ids of the window
WindowTokens(doc_span) ==
    [i \in 1..doc_span.length |-> PyIndex(all_doc_tokens, doc_span.start + i - 1)]

FeatureTokens(doc_span) ==
    <<cls_token>> \o query_tokens \o <<sep_token>> \o WindowTokens(doc_span) \o <<sep_token>>

FeatureSegmentIds(doc_span) ==
    <<cls_token_segment_id>> \o Repeat(sequence_a_segment_id, Len(query_tokens))
        \o <<sequence_a_segment_id>> \o Repeat(sequence_b_segment_id, doc_span.length)
        \o <<sequence_b_segment_id>>

\* the keys of token_to_orig_map and token_is_max_context: len(tokens) as the
\* paragraph loop of lines 593-602 runs
WindowKeys(doc_span) == (Len(query_tokens) + 2)..(Len(query_tokens) + 1 + doc_span.length)

\* lines 634-657 with a doc_offset (line 651) that forgets the first [SEP]
FeatureLabelsShifted(example_is_impossible, doc_span, tok_start, tok_end) ==
    IF is_training /\ ~example_is_impossible
    THEN LET doc_start == doc_span.start
             doc_end == doc_span.start + doc_span.length - 1
             out_of_span == ~(tok_start[1] >= doc_start /\ tok_end[1] <= doc_end)
             doc_offset == Len(query_tokens) + 1
         IN IF out_of_span
            THEN [start_position |-> Some(cls_index), end_position |-> Some(cls_index),
                  span_is_impossible |-> TRUE]
            ELSE [start_position |-> Some(tok_start[1] - doc_start + doc_offset),
                  end_position |-> Some(tok_end[1] - doc_start + doc_offset),
                  span_is_impossible |-> FALSE]
    ELSE IF is_training /\ example_is_impossible
    THEN [start_position |-> Some(cls_index), end_position |-> Some(cls_index),
          span_is_impossible |-> TRUE]
    ELSE [start_position |-> None, end_position |-> None,
          span_is_impossible |-> example_is_impossible]
\* lines 634-653 without the block of lines 655-657
FeatureLabelsBroken(example_is_impossible, doc_span, tok_start, tok_end) ==
    IF is_training /\ ~example_is_impossible
    THEN LET doc_start == doc_span.start
             doc_end == doc_span.start + doc_span.length - 1
             out_of_span == ~(tok_start[1] >= doc_start /\ tok_end[1] <= doc_end)
             doc_offset == Len(query_tokens) + 2
         IN IF out_of_span
            THEN [start_position |-> Some(cls_index), end_position |-> Some(cls_index),
                  span_is_impossible |-> TRUE]
            ELSE [start_position |-> Some(tok_start[1] - doc_start + doc_offset),
                  end_position |-> Some(tok_end[1] - doc_start + doc_offset),
                  span_is_impossible |-> FALSE]
    ELSE [start_position |-> None, end_position |-> None,
          span_is_impossible |-> example_is_impossible]
\* lines 634-657: the labels of the window.  tok_start and tok_end are the
\* refined answer span of the example (None outside training).
FeatureLabels(example_is_impossible, doc_span, tok_start, tok_end) ==
    IF is_training /\ ~example_is_impossible
    THEN LET doc_start == doc_span.start
             doc_end == doc_span.start + doc_span.length - 1
             out_of_span == ~(tok_start[1] >= doc_start /\ tok_end[1] <= doc_end)
             doc_offset == Len(query_tokens) + 2
         IN IF out_of_span
            THEN [start_position |-> Some(cls_index), end_position |-> Some(cls_index),
                  span_is_impossible |-> TRUE]
            ELSE [start_position |-> Some(tok_start[1] - doc_start + doc_offset),
                  end_position |-> Some(tok_end[1] - doc_start + doc_offset),
                  span_is_impossible |-> FALSE]
    ELSE IF is_training /\ example_is_impossible
    THEN [start_position |-> Some(cls_index), end_position |-> Some(cls_index),
          span_is_impossible |-> TRUE]
    ELSE [start_position |-> None, end_position |-> None,
          span_is_impossible |-> example_is_impossible]

\* line 672 left out
NextUniqueIdBroken(id) == id
\* line 672
NextUniqueId(id) == id + 1

QAFeatures(doc_span, labels) ==
    LET tokens == FeatureTokens(doc_span)
        input_ids == convert_tokens_to_ids(tokens)
    IN [unique_id |-> unique_id,
        example_index |-> example_index,
        tokens |-> tokens,
        token_to_orig_map |->
            [key \in WindowKeys(doc_span) |->
                PyIndex(tok_to_orig_index, doc_span.start + key - Len(query_tokens) - 2)],
        token_is_max_context |->
            [key \in WindowKeys(doc_span) |->
                _check_is_max_context(doc_spans, doc_span_index,
                    doc_span.start + key - Len(query_tokens) - 2)],
        input_ids |-> Pad(input_ids, max_len, pad_token),
        input_mask |-> Pad(Repeat(1, Len(input_ids)), max_len, 0),
        segment_ids |-> Pad(FeatureSegmentIds(doc_span), max_len, pad_token_segment_id),
        paragraph_len |-> doc_span.length,
        start_position |-> labels.start_position,
        end_position |-> labels.end_position]

ForDocSpan ==
    /\ pc = "features"
    /\ IF doc_span_index < Len(doc_spans)
       THEN LET doc_span == doc_spans[doc_span_index + 1]
                example == qa_examples[example_index + 1]
                labels == FeatureLabels(example.is_impossible, doc_span,
                              tok_start_position, tok_end_position)
                feature == QAFeatures(doc_span, labels)
            IN IF Len(feature.input_ids) # max_len \/ Len(feature.input_mask) # max_len
                  \/ Len(feature.segment_ids) # max_len
               THEN \* lines 630-632
                    /\ pc' = "error"
                    /\ raised' = "AssertionError"
                    /\ UNCHANGED <<features, unique_id, doc_span_index, windows, example_index>>
               ELSE /\ features' = Append(features, feature)
                    /\ windows' = Append(windows,
                           [doc_span |-> doc_span, doc_span_index |-> doc_span_index,
                            query_len |-> Len(query_tokens),
                            span_is_impossible |-> labels.span_is_impossible,
                            tok_start_position |-> tok_start_position,
                            tok_end_position |-> tok_end_position])
                    /\ unique_id' = NextUniqueId(unique_id)
                    /\ doc_span_index' = doc_span_index + 1
                    /\ UNCHANGED <<pc, raised, example_index>>
       ELSE /\ example_index' = example_index + 1
            /\ pc' = "tokenize"
            /\ UNCHANGED <<raised, features, unique_id, doc_span_index, windows>>
    /\ UNCHANGED <<args, qa_id, is_impossible, zip_index, looked_up, qa_examples,
                   example_locals, doc_spans, start_offset>>

Next == Defaults \/ ForZip \/ ForExample \/ SpanLoop \/ ForDocSpan

\* ------------------------------------------------------------------------
\* The calls the model makes.  Families of arguments:
\*   WindowCalls  one question without answers (is_training false): every
\*                document over "a" and " ", every window size and stride,
\*                the sizes that leave no room for the document included;
\*   AnswerCalls  one possible question in training: every document over
\*                "a", "b", " " and U+00A0, every answer offset and a few
\*                answer texts;
\*   BatchCalls   batches of up to MaxBatch questions over one document, in
\*                both modes, with scalar and list answers, and with bare
\*                strings or sequences of different lengths as arguments;
\*   LongCalls    one question without answers at the largest supported
\*                max_len, BERT_MAX_LEN, and one above it;
\*   SpaceCalls   one question without answers over every document of "a",
\*                the five characters of _is_whitespace and U+00A0.
\* LoopCalls, a part of WindowCalls, are the calls of the specification with
\* fairness.
\* ------------------------------------------------------------------------
Locals0 ==
    /\ pc = "start"
    /\ raised = ""
    /\ zip_index = 0
    /\ looked_up = {}
    /\ qa_examples = <<>>
    /\ features = <<>>
    /\ windows = <<>>
    /\ unique_id = 0
    /\ example_index = 0
    /\ query_tokens = <<>>
    /\ all_doc_tokens = <<>>
    /\ tok_to_orig_index = <<>>
    /\ orig_to_tok_index = <<>>
    /\ tok_start_position = None
    /\ tok_end_position = None
    /\ max_tokens_for_doc = 0
    /\ doc_spans = <<>>
    /\ start_offset = 0
    /\ doc_span_index = 0

Questions == {<<>>, <<97>>, <<97, 32, 97>>}

WindowCalls ==
    /\ \E d \in SeqsUpTo({97, 32}, MaxDocLen + 1) : doc_text = PyList(<<d>>)
    /\ \E q \in Questions : question_text = PyList(<<q>>)
    /\ answer_start = PyList(<<PyInt(0)>>)
    /\ answer_text = PyList(<<PyStr(<<>>)>>)
    /\ is_training = FALSE
    /\ max_query_length \in 1..2
    /\ max_len \in 3..MaxMaxLen
    /\ doc_stride \in 0..MaxStride
    /\ qa_id = NoneArg
    /\ is_impossible = NoneArg
    /\ tokmode \in TokModes

AnswerTexts == {<<>>, <<97>>, <<98>>, <<97, 98>>, <<97, 32, 98>>}

AnswerCalls ==
    /\ \E d \in SeqsUpTo({97, 98, 32, 160}, MaxDocLen) : doc_text = PyList(<<d>>)
    /\ question_text = PyList(<<<<97>>>>)
    /\ \E s \in 0..MaxDocLen : answer_start = PyList(<<PyInt(s)>>)
    /\ \E t \in AnswerTexts : answer_text = PyList(<<PyStr(t)>>)
    /\ is_training = TRUE
    /\ max_query_length = 2
    /\ max_len \in 5..6
    /\ doc_stride = 1
    /\ qa_id = NoneArg
    /\ is_impossible = PyList(<<FALSE>>)
    /\ tokmode \in TokModes

\* one question of a batch: its answers and its flag, over the document "a b"
BatchQuestions ==
    { [s |-> PyInt(0), t |-> PyStr(<<97>>), impossible |-> FALSE],
      [s |-> PyInt(0), t |-> PyStr(<<98>>), impossible |-> FALSE],
      [s |-> PyList(<<0>>), t |-> PyList(<<<<97>>>>), impossible |-> FALSE],
      [s |-> PyList(<<0, 2>>), t |-> PyList(<<<<97>>, <<98>>>>), impossible |-> FALSE],
      [s |-> PyList(<<0, 2>>), t |-> PyList(<<<<97>>, <<98>>>>), impossible |-> TRUE],
      [s |-> PyInt(7), t |-> PyStr(<<97>>), impossible |-> TRUE],
      [s |-> PyList(<<0>>), t |-> PyList(<<<<97>>, <<98>>>>), impossible |-> FALSE],
      [s |-> PyList(<<>>), t |-> PyList(<<>>), impossible |-> FALSE] }

\* how the arguments of a batch call are passed
BatchShapes == {"lists", "doc_text str", "question_text str", "doc_text short",
                "is_impossible short", "qa_id short"}

ButLast(seq) == SubSeq(seq, 1, Len(seq) - 1)

BatchCalls ==
    \E b \in SeqsUpTo(BatchQuestions, MaxBatch), shape \in BatchShapes :
        LET n == Len(b)
        IN /\ doc_text = IF shape = "doc_text str" THEN PyStr(<<97, 98>>)
                         ELSE IF shape = "doc_text short"
                         THEN PyList([k \in 1..(n - 1) |-> <<97, 32, 98>>])
                         ELSE PyList([k \in 1..n |-> <<97, 32, 98>>])
           /\ question_text = IF shape = "question_text str" THEN PyStr(<<97, 97>>)
                              ELSE PyList([k \in 1..n |-> <<97>>])
           /\ answer_start = PyList([k \in 1..n |-> b[k].s])
           /\ answer_text = PyList([k \in 1..n |-> b[k].t])
           /\ is_training \in BOOLEAN
           /\ max_query_length = 2
           /\ max_len = 5
           /\ doc_stride = 1
           /\ qa_id = IF shape = "qa_id short" THEN PyList([k \in 1..(n - 1) |-> 10 + k])
                      ELSE NoneArg
           /\ is_impossible = IF shape = "is_impossible short"
                              THEN PyList(ButLast([k \in 1..n |-> b[k].impossible]))
                              ELSE PyList([k \in 1..n |-> b[k].impossible])
           /\ tokmode = "char"

LongCalls ==
    /\ \E d \in {<<97>>, <<97, 32, 97>>} : doc_text = PyList(<<d>>)
    /\ question_text = PyList(<<<<97>>>>)
    /\ answer_start = PyList(<<PyInt(0)>>)
    /\ answer_text = PyList(<<PyStr(<<>>)>>)
    /\ is_training = FALSE
    /\ max_query_length = 2
    /\ max_len \in {BERT_MAX_LEN, BERT_MAX_LEN + 1}
    /\ doc_stride = 1
    /\ qa_id = NoneArg
    /\ is_impossible = NoneArg
    /\ tokmode \in TokModes

SpaceCalls ==
    /\ \E d \in SeqsUpTo({97, 32, 9, 13, 10, 8239, 160}, MaxDocLen) :
           doc_text = PyList(<<d>>)
    /\ question_text = PyList(<<<<97>>>>)
    /\ answer_start = PyList(<<PyInt(0)>>)
    /\ answer_text = PyList(<<PyStr(<<>>)>>)
    /\ is_training = FALSE
    /\ max_query_length = 2
    /\ max_len = MaxMaxLen
    /\ doc_stride = 1
    /\ qa_id = NoneArg
    /\ is_impossible = NoneArg
    /\ tokmode = "char"

Init ==
    Locals0 /\ (WindowCalls \/ AnswerCalls \/ BatchCalls \/ LongCalls \/ SpaceCalls)

Spec == Init /\ [][Next]_vars

\* The calls of WindowCalls that differ in what the sliding-window loop
\* reads only: the number of subword tokens of the document (0 to
\* MaxDocLen + 1 in "char" mode, 0 or 1 in "word" mode), max_len and doc_stride.
LoopCalls ==
    /\ \E d \in SeqsUpTo({97}, MaxDocLen + 1) : doc_text = PyList(<<d>>)
    /\ question_text = PyList(<<<<97>>>>)
    /\ answer_start = PyList(<<PyInt(0)>>)
    /\ answer_text = PyList(<<PyStr(<<>>)>>)
    /\ is_training = FALSE
    /\ max_query_length = 2
    /\ max_len \in 3..MaxMaxLen
    /\ doc_stride \in 0..MaxStride
    /\ qa_id = NoneArg
    /\ is_impossible = NoneArg
    /\ tokmode \in TokModes

LoopInit == Locals0 /\ LoopCalls

\* The call is one thread of a running interpreter: the statement it is at
\* is executed sooner or later, whichever part of the function it is in.
LoopSpec == LoopInit /\ [][Next]_vars /\ WF_vars(Next)

\* ------------------------------------------------------------------------
\* Properties
\* ------------------------------------------------------------------------
\* the positions of the document a span holds
SpanPositions(doc_span) == doc_span.start..(doc_span.start + doc_span.length - 1)

\* the loop of lines 555-562 has ended for the current example
SpansGenerated == pc = "features"

\* every window of the current example has its feature
FeaturesOfExampleBuilt == pc = "features" /\ doc_span_index = Len(doc_spans)

\* C1: when the window has room for the document (max_tokens_for_doc > 0)
\* and doc_stride is positive, the spans the loop generated cover exactly
\* the positions 0..N-1 of the N subword tokens of the document, and the
\* last span ends at N.
C1_Coverage ==
    (SpansGenerated /\ max_tokens_for_doc > 0 /\ doc_stride > 0) =>
        LET N == Len(all_doc_tokens)
        IN /\ UNION {SpanPositions(doc_spans[k]) : k \in 1..Len(doc_spans)} = 0..(N - 1)
           /\ (N > 0 => doc_spans # <<>>)
           /\ (doc_spans # <<>> =>
                 doc_spans[Len(doc_spans)].start + doc_spans[Len(doc_spans)].length = N)

\* three overlapping windows were generated
C1_Witness ==
    /\ SpansGenerated /\ max_tokens_for_doc > 0 /\ doc_stride > 0
    /\ Len(doc_spans) >= 3
    /\ doc_stride < max_tokens_for_doc

\* the span indexes (0-based) whose span holds the position
SpansHolding(position) ==
    {k \in 0..(Len(doc_spans) - 1) : position \in SpanPositions(doc_spans[k + 1])}

\* the features of the current example that mark the position as max context
FeaturesMarking(position) ==
    {k \in 0..(Len(doc_spans) - 1) :
        LET f == features[Len(features) - Len(doc_spans) + k + 1]
            key == position - doc_spans[k + 1].start + Len(query_tokens) + 2
        IN key \in DOMAIN f.token_is_max_context /\ f.token_is_max_context[key]}

\* C2: for every position of the document that two or more of the generated
\* spans hold, _check_is_max_context is true for exactly one span index, a
\* span that holds the position, and exactly one feature of the example
\* marks the token of that position token_is_max_context.
C2_MaxContextUnique ==
    FeaturesOfExampleBuilt =>
        \A position \in 0..(Len(all_doc_tokens) - 1) :
            Cardinality(SpansHolding(position)) >= 2 =>
                /\ Cardinality({k \in 0..(Len(doc_spans) - 1) :
                       _check_is_max_context(doc_spans, k, position)}) = 1
                /\ \A k \in 0..(Len(doc_spans) - 1) :
                       _check_is_max_context(doc_spans, k, position)
                           => k \in SpansHolding(position)
                /\ Cardinality(FeaturesMarking(position)) = 1

\* a position held by two windows of equal score, all features built
C2_Witness ==
    /\ FeaturesOfExampleBuilt
    /\ \E position \in 0..(Len(all_doc_tokens) - 1) :
           \E j, k \in SpansHolding(position) :
               /\ j # k
               /\ SpanScore(doc_spans[j + 1], position) = SpanScore(doc_spans[k + 1], position)

\* C3: every feature emitted has input_ids, input_mask and segment_ids of
\* length max_len, and the assertions of lines 630-632 never fail.
C3_FixedWidth ==
    /\ raised # "AssertionError"
    /\ \A i \in 1..Len(features) :
           /\ Len(features[i].input_ids) = max_len
           /\ Len(features[i].input_mask) = max_len
           /\ Len(features[i].segment_ids) = max_len

\* a call that returned a padded feature and a feature without padding
C3_Witness ==
    /\ pc = "done"
    /\ \E i, j \in 1..Len(features) :
           /\ features[i].input_mask[max_len] = 0
           /\ features[j].input_mask[max_len] = 1

\* ------------------------------------------------------------------------
\* the example of the i-th feature
ExampleOf(i) == qa_examples[features[i].example_index + 1]

\* C4: every feature of a possible example in training whose window is not
\* marked span_is_impossible has start_position <= end_position, both inside
\* the document-window region of its tokens.
C4_AnswerContainment ==
    \A i \in 1..Len(features) :
        (is_training /\ ~ExampleOf(i).is_impossible /\ ~windows[i].span_is_impossible) =>
            /\ features[i].start_position[1] <= features[i].end_position[1]
            /\ windows[i].query_len + 2 <= features[i].start_position[1]
            /\ features[i].end_position[1]
                   <= windows[i].query_len + 1 + features[i].paragraph_len

\* C5: a window without room for a non-empty document (max_tokens_for_doc
\* <= 0) ends the call with an error: the span loop is never entered with
\* it, and no span of zero or negative length is ever emitted.
C5_WindowOverflowFailsFast ==
    /\ ~(pc \in {"spans", "features"} /\ max_tokens_for_doc <= 0 /\ Len(all_doc_tokens) > 0)
    /\ \A k \in 1..Len(doc_spans) : doc_spans[k].length >= 1

\* the answer of the k-th tuple is one (offset, text) pair of a possible
\* question in training, the offsets are inside the document, and the words
\* recovered from them do not contain the whitespace-normalized answer text
RecoveryMismatch(k) ==
    LET z == ZipTuple(k)
        ws == WhitespaceTokenizer(z.d_text)
        ctw == ws.char_to_word_offset
        single == IF _is_iterable_but_not_string(z.a_start)
                  THEN PyLen(z.a_start) = 1 /\ PyLen(z.a_text) = 1
                  ELSE TRUE
        s == IF _is_iterable_but_not_string(z.a_start) THEN z.a_start.val[1] ELSE z.a_start.val
        t == IF _is_iterable_but_not_string(z.a_start) THEN PyIter(z.a_text)[1] ELSE z.a_text.val
    IN /\ is_training /\ ~z.impossible /\ single
       /\ PyIndexOk(ctw, s) /\ PyIndexOk(ctw, s + Len(t) - 1)
       /\ ~Contains(Join(PySlice(ws.d_tokens, PyIndex(ctw, s), PyIndex(ctw, s + Len(t) - 1) + 1)),
                    Join(whitespace_tokenize(t)))

\* C6: in training, an answer that cannot be recovered from the document is
\* dropped without an exception: after the tuple that holds it, the call
\* goes on with the next tuple and no example was appended for it.
C6_MismatchIsNonFatal ==
    (pc \in {"examples", "error"} /\ zip_index >= 1 /\ RecoveryMismatch(zip_index)) =>
        /\ pc = "examples"
        /\ raised = ""
        /\ \A e \in 1..Len(qa_examples) : qa_examples[e].qa_id # qa_id.val[zip_index]

\* ------------------------------------------------------------------------
\* the tuples of the zip whose question is marked impossible
ImpossibleTuples ==
    IF is_impossible.kind = "list"
    THEN {k \in 1..ZipLen : is_impossible.val[k]}
    ELSE {}

\* C7 as stated: every feature of an example marked impossible has
\* start_position = end_position = cls_index, and the answer offsets of an
\* impossible question never index char_to_word_offset.
C7_ImpossibleAsStated ==
    /\ \A i \in 1..Len(features) :
           ExampleOf(i).is_impossible =>
               /\ features[i].start_position = Some(cls_index)
               /\ features[i].end_position = Some(cls_index)
    /\ looked_up \cap ImpossibleTuples = {}

\* C7, amended: in training, every feature of an example marked impossible
\* has start_position = end_position = cls_index; in both modes the answer
\* offsets of an impossible question never index char_to_word_offset, and
\* outside training the positions of every feature are None.
C7_ImpossibleInTraining ==
    /\ \A i \in 1..Len(features) :
           ExampleOf(i).is_impossible =>
               IF is_training
               THEN /\ features[i].start_position = Some(cls_index)
                    /\ features[i].end_position = Some(cls_index)
               ELSE /\ features[i].start_position = None
                    /\ features[i].end_position = None
    /\ looked_up \cap ImpossibleTuples = {}

\* a training call returned features of an impossible question whose answer
\* offset lies outside its document
C7_Witness ==
    /\ pc = "done" /\ is_training
    /\ doc_text.kind = "list" /\ question_text.kind = "list"
    /\ ZipLen = PyLen(question_text)
    /\ \E i \in 1..Len(features), k \in ImpossibleTuples :
           /\ ExampleOf(i).is_impossible
           /\ ExampleOf(i).qa_id = qa_id.val[k]
           /\ ~_is_iterable_but_not_string(ZipTuple(k).a_start)
           /\ ~PyIndexOk(WhitespaceTokenizer(ZipTuple(k).d_text).char_to_word_offset,
                         ZipTuple(k).a_start.val)

\* C8: the unique_id of the first feature is 1000000000, the ids increase
\* strictly in emission order, and two consecutive features differ by 1.
C8_UniqueIds ==
    /\ (features # <<>> => features[1].unique_id = 1000000000)
    /\ \A i, j \in 1..Len(features) : i < j => features[i].unique_id < features[j].unique_id
    /\ \A i \in 1..(Len(features) - 1) :
           features[i + 1].unique_id = features[i].unique_id + 1

\* a call returned the features of two examples, one of them with two windows
C8_Witness ==
    /\ pc = "done"
    /\ \E i \in 1..(Len(features) - 2) :
           /\ features[i].example_index = features[i + 1].example_index
           /\ features[i + 1].example_index # features[i + 2].example_index

\* a bare string where a sequence of strings is required, or parallel
\* arguments of different lengths
InvalidInput ==
    \/ doc_text.kind = "str"
    \/ question_text.kind = "str"
    \/ PyLen(doc_text) # PyLen(question_text)
    \/ PyLen(answer_start) # PyLen(question_text)
    \/ PyLen(answer_text) # PyLen(question_text)
    \/ qa_id.kind = "list" /\ PyLen(qa_id) # PyLen(question_text)
    \/ is_impossible.kind = "list" /\ PyLen(is_impossible) # PyLen(question_text)

\* C9: a call with invalid input never returns: no example is built and no
\* feature is emitted for it.
C9_InvalidInputRejected ==
    InvalidInput => (pc # "done" /\ qa_examples = <<>> /\ features = <<>>)

\* the examples built for the k-th tuple
ExamplesOfTuple(k) ==
    SelectSeq(qa_examples, LAMBDA ex : ex.qa_id = qa_id.val[k])

\* the answer texts of the k-th tuple, a scalar taken as a one-element sequence
AnswerTextsOfTuple(k) ==
    LET z == ZipTuple(k)
    IN IF _is_iterable_but_not_string(z.a_start) THEN PyIter(z.a_text) ELSE <<z.a_text.val>>

\* the k-th tuple has been consumed without an exception
TupleDone(k) == k < zip_index \/ (k = zip_index /\ pc # "error")

\* C10: a tuple with more than one answer offset for a possible question in
\* training ends the call with an exception, and no feature is emitted; a
\* tuple with as many offsets as texts that is not in training or is marked
\* impossible raises nothing and yields one example per (offset, text)
\* pair, in order; a scalar offset yields one example, as a one-element
\* sequence does.
C10_MultipleAnswers ==
    \A k \in 1..zip_index :
        LET z == ZipTuple(k)
            many == _is_iterable_but_not_string(z.a_start) /\ PyLen(z.a_start) > 1
            matched == _is_iterable_but_not_string(z.a_start) => PyLen(z.a_start) = PyLen(z.a_text)
        IN /\ (many /\ is_training /\ ~z.impossible) =>
                  /\ pc = "error"
                  /\ raised \in {"Exception: exactly 1 answer", "Exception: lengths differ"}
                  /\ features = <<>>
           /\ (matched /\ (~is_training \/ z.impossible)) =>
                  /\ TupleDone(k)
                  /\ Len(ExamplesOfTuple(k)) = Len(AnswerTextsOfTuple(k))
                  /\ \A e \in 1..Len(ExamplesOfTuple(k)) :
                         ExamplesOfTuple(k)[e].orig_answer_text = AnswerTextsOfTuple(k)[e]
           /\ ~_is_iterable_but_not_string(z.a_start) =>
                  raised \notin {"Exception: exactly 1 answer", "Exception: lengths differ"}
                      \/ k < zip_index

\* the second question of a training batch has two answers and ends the call
C10_Witness ==
    /\ pc = "error" /\ raised = "Exception: exactly 1 answer"
    /\ doc_text.kind = "list" /\ question_text.kind = "list"
    /\ zip_index = 2 /\ is_training
    /\ PyLen(ZipTuple(2).a_start) = 2
    /\ qa_examples # <<>>

\* C11: max_len hard cap.  Whenever an entry point is called with max_len
\* above BERT_MAX_LEN the value is clamped to BERT_MAX_LEN and no error is
\* raised, so no returned fixed-length sequence is longer than BERT_MAX_LEN:
\* the max_len tokenize_ner and preprocess_classification_tokens pad to is at
\* most BERT_MAX_LEN, and input_ids, input_mask and segment_ids of every
\* Feature of tokenize_qa have at most BERT_MAX_LEN entries.
C11_MaxLenCapped ==
    /\ tokenize_ner_max_len(max_len) <= BERT_MAX_LEN
    /\ preprocess_classification_tokens_max_len(max_len) <= BERT_MAX_LEN
    /\ max_len > BERT_MAX_LEN => raised = ""
    /\ \A i \in 1..Len(features) :
           /\ Len(features[i].input_ids) <= BERT_MAX_LEN
           /\ Len(features[i].input_mask) <= BERT_MAX_LEN
           /\ Len(features[i].segment_ids) <= BERT_MAX_LEN

\* the example whose spans and features are being built
CurrentExample == qa_examples[example_index + 1]

\* lines 533-547 have refined the answer span of the current example
AnswerRefined ==
    /\ pc \in {"spans", "features"}
    /\ is_training
    /\ ~CurrentExample.is_impossible

\* the span handed to _improve_answer_span (lines 537-541): the subword
\* tokens of the answer's first to last word
InputSpan ==
    <<PyIndex(orig_to_tok_index, CurrentExample.start_position[1]),
      IF CurrentExample.end_position[1] < Len(CurrentExample.doc_tokens) - 1
      THEN PyIndex(orig_to_tok_index, CurrentExample.end_position[1] + 1) - 1
      ELSE Len(all_doc_tokens) - 1>>

\* the spans inside InputSpan whose subword tokens, joined by spaces, are the
\* subword tokens of the answer text joined by spaces
MatchingSpans ==
    LET tok_answer_text == Join(tokenize(CurrentExample.orig_answer_text, tokmode))
    IN { c \in (InputSpan[1]..InputSpan[2]) \X (InputSpan[1]..InputSpan[2]) :
           /\ c[1] <= c[2]
           /\ Join(PySlice(all_doc_tokens, c[1], c[2] + 1)) = tok_answer_text }

\* c comes before d in the scan: new_start ascending, then new_end descending
ScannedBefore(c, d) == c[1] < d[1] \/ (c[1] = d[1] /\ c[2] > d[2])

RefinedSpan == <<tok_start_position[1], tok_end_position[1]>>

\* C12: _improve_answer_span returns the first span of the scan (new_start
\* ascending over [input_start, input_end], new_end descending from input_end
\* to new_start) whose space-joined subword slice equals the space-joined
\* tokenization of the answer text, and the input span unchanged when no
\* span matches; so input_start <= new_start and new_end <= input_end, and
\* the refinement raises no error.
C12_ImproveAnswerSpan ==
    AnswerRefined =>
        /\ IF MatchingSpans = {} THEN RefinedSpan = InputSpan
           ELSE /\ RefinedSpan \in MatchingSpans
                /\ \A c \in MatchingSpans \ {RefinedSpan} : ScannedBefore(RefinedSpan, c)
        /\ InputSpan[1] <= RefinedSpan[1]
        /\ RefinedSpan[2] <= InputSpan[2]
        /\ raised = ""

\* an answer found twice inside the words of the annotation: the refined span
\* is the first match and narrower than the input span
C12_Witness ==
    /\ AnswerRefined
    /\ Cardinality(MatchingSpans) >= 2
    /\ RefinedSpan # InputSpan
    /\ InputSpan[1] < InputSpan[2]

\* the subword tokens of the question of feature i, before any truncation
QuestionSubwords(i) == tokenize(ExampleOf(i).question_text, tokmode)

\* the subword tokens of the document of feature i, word after word
DocumentSubwords(i) ==
    Concat([k \in 1..Len(ExampleOf(i).doc_tokens) |->
               tokenize(ExampleOf(i).doc_tokens[k], tokmode)])

\* how many question tokens feature i holds
QuestionLength(i) == Min(Len(QuestionSubwords(i)), max_query_length)

\* how many real tokens feature i holds: [CLS], question, [SEP], window, [SEP]
RealLength(i) == QuestionLength(i) + windows[i].doc_span.length + 3

\* C13: Feature layout.  The tokens of every Feature are [CLS], the first
\* max_query_length subword tokens of the question, [SEP], the subword tokens
\* of the document its DocSpan covers, [SEP]; segment_ids are 0 on [CLS], the
\* question and the first [SEP], 1 on the window and the final [SEP], and 0
\* on padding; input_mask is 1 on real tokens and 0 on padding;
\* paragraph_len is the length of the span.
C13_FeatureLayout ==
    \A i \in 1..Len(features) :
        LET feature == features[i]
            doc_span == windows[i].doc_span
            q == QuestionLength(i)
            n == RealLength(i)
        IN /\ Len(feature.tokens) = n
           /\ feature.tokens[1] = cls_token
           /\ \A k \in 1..q : feature.tokens[1 + k] = QuestionSubwords(i)[k]
           /\ feature.tokens[q + 2] = sep_token
           /\ \A k \in 1..doc_span.length :
                  feature.tokens[q + 2 + k] = DocumentSubwords(i)[doc_span.start + k]
           /\ feature.tokens[n] = sep_token
           /\ Len(feature.segment_ids) = Len(feature.input_ids)
           /\ Len(feature.input_mask) = Len(feature.input_ids)
           /\ \A p \in 1..Len(feature.input_ids) :
                  /\ feature.segment_ids[p] = IF p <= q + 2 THEN 0 ELSE IF p <= n THEN 1 ELSE 0
                  /\ feature.input_mask[p] = IF p <= n THEN 1 ELSE 0
           /\ feature.paragraph_len = doc_span.length

\* a Feature with a truncated question, a window that starts inside the
\* document, and padding
C13_Witness ==
    \E i \in 1..Len(features) :
        /\ Len(QuestionSubwords(i)) > max_query_length
        /\ windows[i].doc_span.start > 0
        /\ windows[i].doc_span.length > 0
        /\ RealLength(i) < Len(features[i].input_ids)

\* feature i belongs to a possible example of a training call
TrainingFeature(i) == is_training /\ ~ExampleOf(i).is_impossible

\* the refined answer span of the example of feature i lies between the first
\* and the last position of the window of feature i
AnswerInsideWindow(i) ==
    LET doc_span == windows[i].doc_span
    IN /\ windows[i].tok_start_position[1] >= doc_span.start
       /\ windows[i].tok_end_position[1] <= doc_span.start + doc_span.length - 1

\* C14: Window-local labels.  For a training Feature of a non-impossible
\* Example: when the refined answer span [tok_start, tok_end] is not fully
\* inside the window [doc_span.start, doc_span.start + doc_span.length - 1],
\* start_position = end_position = cls_index = 0; otherwise start_position =
\* tok_start - doc_span.start + len(query_tokens) + 2 and end_position =
\* tok_end - doc_span.start + len(query_tokens) + 2, and the tokens of the
\* Feature from start_position to end_position are the subword tokens of the
\* document from tok_start to tok_end.
C14_WindowLocalLabels ==
    \A i \in 1..Len(features) :
        TrainingFeature(i) =>
            LET feature == features[i]
                doc_span == windows[i].doc_span
                tok_start == windows[i].tok_start_position[1]
                tok_end == windows[i].tok_end_position[1]
                doc_offset == QuestionLength(i) + 2
            IN IF ~AnswerInsideWindow(i)
               THEN feature.start_position = <<0>> /\ feature.end_position = <<0>>
               ELSE /\ feature.start_position = <<tok_start - doc_span.start + doc_offset>>
                    /\ feature.end_position = <<tok_end - doc_span.start + doc_offset>>
                    /\ \A k \in 0..(tok_end - tok_start) :
                           feature.tokens[feature.start_position[1] + k + 1]
                               = DocumentSubwords(i)[tok_start + k + 1]

\* an example with two windows, the answer of two subword tokens: outside the
\* first window, inside the second, which starts inside the document
C14_Witness ==
    \E i, j \in 1..Len(features) :
        /\ features[i].example_index = features[j].example_index
        /\ TrainingFeature(i)
        /\ ~AnswerInsideWindow(i)
        /\ AnswerInsideWindow(j)
        /\ windows[j].doc_span.start > 0
        /\ windows[j].tok_start_position[1] < windows[j].tok_end_position[1]
        /\ features[j].start_position[1] < features[j].end_position[1]

\* the i-th character (1-based) of d is whitespace: space, tab, CR, LF, U+202F
SpaceAt(d, i) == d[i] \in {32, 9, 13, 10, 8239}

\* where the maximal runs of non-whitespace characters of d start and end
RunStarts(d) == {i \in 1..Len(d) : ~SpaceAt(d, i) /\ (i = 1 \/ SpaceAt(d, i - 1))}
RunEnds(d) == {i \in 1..Len(d) : ~SpaceAt(d, i) /\ (i = Len(d) \/ SpaceAt(d, i + 1))}

\* how many runs have started at or before the i-th character
RunsStarted(d, i) == Cardinality({s \in RunStarts(d) : s <= i})

\* the run that starts at s
RunFrom(d, s) ==
    LET e == CHOOSE j \in RunEnds(d) : j >= s /\ \A j2 \in RunEnds(d) : j2 >= s => j <= j2
    IN SubSeq(d, s, e)

\* C15: Whitespace tokenizer.  For every document string the word list is
\* the maximal runs of non-whitespace characters, in order (whitespace is
\* space, tab, CR, LF and U+202F; no empty word), and char_to_word_offset
\* has one entry per character: for a character of a word a valid index of
\* the word list, of the word the character belongs to; for a whitespace
\* character the index of the most recently started word (one less than the
\* number of words started so far).  The examples of the document hold that
\* word list.
C15_WhitespaceTokenizer ==
    \A k \in 1..zip_index :
        LET d == ZipTuple(k).d_text
            words == WhitespaceTokenizer(d).d_tokens
            offsets == WhitespaceTokenizer(d).char_to_word_offset
        IN /\ Len(words) = Cardinality(RunStarts(d))
           /\ \A s \in RunStarts(d) : words[RunsStarted(d, s)] = RunFrom(d, s)
           /\ \A w \in 1..Len(words) : words[w] # <<>>
           /\ Len(offsets) = Len(d)
           /\ \A i \in 1..Len(d) :
                  /\ offsets[i] = RunsStarted(d, i) - 1
                  /\ ~SpaceAt(d, i) =>
                         /\ offsets[i] \in 0..(Len(words) - 1)
                         /\ \E p \in 1..Len(words[offsets[i] + 1]) :
                                /\ words[offsets[i] + 1][p] = d[i]
                                /\ i - p + 1 \in RunStarts(d)
           /\ TupleDone(k) =>
                  \A e \in 1..Len(ExamplesOfTuple(k)) :
                      ExamplesOfTuple(k)[e].doc_tokens = words

\* a document of two words that only U+202F separates has been split in two
C15_Witness ==
    /\ pc = "done"
    /\ doc_text.kind = "list"
    /\ \E k \in 1..zip_index :
           LET d == ZipTuple(k).d_text
           IN /\ Len(d) = 3
              /\ d[2] = 8239
              /\ ~SpaceAt(d, 1) /\ ~SpaceAt(d, 3)
              /\ Len(ExamplesOfTuple(k)) = 1
              /\ Len(ExamplesOfTuple(k)[1].doc_tokens) = 2

\* the sliding-window loop of the current example is running or has ended
InSpanLoop == pc \in {"spans", "features"}

\* the condition of C16: room for at least one document token per window,
\* and a stride of at least one token
WindowAndStridePositive == max_tokens_for_doc >= 1 /\ doc_stride >= 1

\* the spans emitted so far are as C16 says: each of 1 to max_tokens_for_doc
\* tokens, each starting min(length, doc_stride) > 0 tokens after the one
\* before, no more spans than document tokens, and no more features of the
\* example than spans
SpansWellFormed ==
    /\ \A j \in 1..Len(doc_spans) :
           /\ 1 <= doc_spans[j].length
           /\ doc_spans[j].length <= max_tokens_for_doc
    /\ \A j \in 1..(Len(doc_spans) - 1) :
           /\ doc_spans[j + 1].start = doc_spans[j].start + Min(doc_spans[j].length, doc_stride)
           /\ doc_spans[j + 1].start > doc_spans[j].start
    /\ Len(doc_spans) <= Len(all_doc_tokens)
    /\ Cardinality({i \in 1..Len(features) : features[i].example_index = example_index})
           <= Len(doc_spans)

\* an iteration of the loop that does not leave it moves start_offset forward
\* by min(length, doc_stride), the length being that of the span it emitted
OffsetAdvances ==
    (pc = "spans" /\ pc' = "spans" /\ WindowAndStridePositive) =>
        /\ Len(doc_spans') = Len(doc_spans) + 1
        /\ start_offset' =
               start_offset + Min(doc_spans'[Len(doc_spans')].length, doc_stride)
        /\ start_offset' > start_offset

\* C16: whenever max_tokens_for_doc >= 1 and doc_stride >= 1, the
\* sliding-window loop terminates for every document of N >= 0 subword
\* tokens; while it runs the start offset grows by min(span length,
\* doc_stride) >= 1 per iteration, every span emitted has between 1 and
\* max_tokens_for_doc tokens, and at most N spans are emitted: none, and so
\* no Feature, when N = 0.
C16_SpanLoopTerminates ==
    /\ []((InSpanLoop /\ WindowAndStridePositive) => SpansWellFormed)
    /\ [][OffsetAdvances]_vars
    /\ (pc = "spans" /\ WindowAndStridePositive) ~> (pc # "spans")

\* the loop has ended after more than one span, consecutive spans overlapping
C16_Witness ==
    /\ pc = "features"
    /\ WindowAndStridePositive
    /\ Len(doc_spans) >= 3
    /\ doc_stride < doc_spans[1].length
    /\ doc_spans[Len(doc_spans)].start + doc_spans[Len(doc_spans)].length
           = Len(all_doc_tokens)

====
